---- MODULE Spec2Model ----
(***************************************************************************)
(* Model of src/app.py (Translation Alien): the three-stage session        *)
(* (Recognition, Translation, Translator) driven by Tk callbacks, and the  *)
(* word <-> glyph lexicon lookups of the Translator stage.                 *)
(*                                                                         *)
(* Text.  A Python str is modelled as a sequence of fragments.  Text typed *)
(* by the user or loaded from the configuration is a sequence of single    *)
(* characters; a literal of the program is one fragment.  Concatenation    *)
(* (f-strings, join) is \o, the empty string is << >>, and a str is falsy  *)
(* exactly when it is << >>.  Non-ASCII literals of the source are written *)
(* with ASCII stand-ins: "->" for the arrow, "*" for the bullet.           *)
(***************************************************************************)
EXTENDS Integers, Sequences, FiniteSets, TLC

VARIABLES
    recognition_rounds,    \* GameState.recognition_rounds (configuration)
    practice_words,        \* GameState.practice_words (configuration)
    dictionary,            \* GameState.dictionary: ordered <<word, glyphs>> pairs
    recognition_choices,   \* GameState.recognition_choices
    translation_attempts,  \* GameState.translation_attempts
    selection_var,         \* RecognitionFrame.selection_var
    current_round,         \* RecognitionFrame.current_round
    next_button,           \* state of RecognitionFrame.next_button
    buttons,               \* option values of the radio buttons in buttons_frame
    round_label,           \* text of RecognitionFrame.round_label
    index,                 \* TranslationFrame.index
    input_var,             \* TranslationFrame.input_var
    prompt_label,          \* text of TranslationFrame.prompt_label
    custom_var,            \* TranslatorFrame.custom_var
    french_var,            \* TranslatorFrame.french_var
    feedback_var,          \* TranslatorFrame.feedback_var
    summary_text,          \* content of TranslatorFrame.summary_text
    top,                   \* the frame raised last (the visible stage)
    raised,                \* TRUE iff the last callback ended by an exception
    lastOp,                \* the last callback run and the text it was given
    typed_log,             \* raw texts given to submit since the last translation reset
    files,                 \* the documents of DATA_DIR, by path
    loads                  \* the GameState of every load_state so far, oldest first

vars == <<recognition_rounds, practice_words, dictionary, recognition_choices,
          translation_attempts, selection_var, current_round, next_button,
          buttons, round_label, index, input_var, prompt_label, custom_var,
          french_var, feedback_var, summary_text, top, raised, lastOp, typed_log,
          files, loads>>

----------------------------------------------------------------------------
(* Bounds of the model. *)

MaxRounds == 2
MaxWords == 2
MaxTextLen == 2
MaxEntries == 2
MaxLoads == 2

----------------------------------------------------------------------------
(* str helpers *)

Empty == << >>

\* Characters Python's str.strip() removes (whitespace).
Whitespace == {" "}

\* str.lower() per character: "A" and "G" are the cased characters of the
\* alphabets used; every other character is its own lower case.
LowerChar(c) == IF c = "A" THEN "a" ELSE IF c = "G" THEN "g" ELSE c

lower(s) == [i \in 1..Len(s) |-> LowerChar(s[i])]

RECURSIVE lstrip(_)
lstrip(s) ==
    IF s # Empty /\ Head(s) \in Whitespace THEN lstrip(Tail(s)) ELSE s

RECURSIVE rstrip(_)
rstrip(s) ==
    IF s # Empty /\ s[Len(s)] \in Whitespace
    THEN rstrip(SubSeq(s, 1, Len(s) - 1))
    ELSE s

strip(s) == rstrip(lstrip(s))

\* str(n) for n >= 0: decimal digits.
Digit(d) == CASE d = 0 -> "0" [] d = 1 -> "1" [] d = 2 -> "2" [] d = 3 -> "3"
              [] d = 4 -> "4" [] d = 5 -> "5" [] d = 6 -> "6" [] d = 7 -> "7"
              [] d = 8 -> "8" [] d = 9 -> "9"

RECURSIVE str(_)
str(n) == IF n < 10 THEN <<Digit(n)>> ELSE str(n \div 10) \o <<Digit(n % 10)>>

\* All sequences over S of length at most n.
SeqsUpTo(S, n) == UNION {[1..k -> S] : k \in 0..n}

----------------------------------------------------------------------------
(* dict helpers: a dict is a sequence of <<key, value>> pairs with distinct  *)
(* keys, in insertion order.                                                *)

HasKey(d, k) == \E i \in 1..Len(d) : d[i][1] = k

KeyIndex(d, k) == CHOOSE i \in 1..Len(d) : d[i][1] = k

\* dict.get(k): None is [present |-> FALSE]; a value v is [present |-> TRUE, value |-> v].
dict_get(d, k) ==
    IF HasKey(d, k)
    THEN [present |-> TRUE, value |-> d[KeyIndex(d, k)][2]]
    ELSE [present |-> FALSE, value |-> Empty]

\* d[k] = v: overwrite in place, or append a new key.
dict_set(d, k, v) ==
    IF HasKey(d, k)
    THEN [d EXCEPT ![KeyIndex(d, k)] = <<k, v>>]
    ELSE Append(d, <<k, v>>)

\* Python truthiness of the result of dict.get on str values.
Truthy(r) == r.present /\ r.value # Empty

RECURSIVE reverse_from(_, _)
reverse_from(d, acc) ==
    IF d = << >> THEN acc
    ELSE reverse_from(Tail(d), dict_set(acc, Head(d)[2], Head(d)[1]))

build_reverse_dictionary(d) == reverse_from(d, << >>)

----------------------------------------------------------------------------
(* Literals of the program *)

Aucun == <<"A", "u", "c", "u", "n">>           \* "Aucun"
Vide == <<"<", "v", "i", "d", "e", ">">>       \* "<vide>"
DISABLED == "disabled"                         \* tk.DISABLED
NORMAL == "normal"                             \* tk.NORMAL

MsgEmptyGlyphs == <<"Saisissez un mot en glyphes.">>
MsgNoMatch == <<"Aucune correspondance trouvee dans la liste fournie.">>
MsgEmptyFrench == <<"Saisissez un mot francais.">>
MsgNotInList == <<"Ce mot n'est pas dans la liste fournie.">>
Arrow == <<"-> ">>

RecognitionChoice(r, sel) == [round_index |-> r, selection |-> sel]
TranslationAttempt(w, t) == [french_word |-> w, typed_glyphs |-> t]

----------------------------------------------------------------------------
(* The application state as one record, so that a callback is a function    *)
(* from state to state and calls compose as in the source.                  *)

Cur ==
    [recognition_rounds |-> recognition_rounds, practice_words |-> practice_words,
     dictionary |-> dictionary, recognition_choices |-> recognition_choices,
     translation_attempts |-> translation_attempts, selection_var |-> selection_var,
     current_round |-> current_round, next_button |-> next_button,
     buttons |-> buttons, round_label |-> round_label, index |-> index,
     input_var |-> input_var, prompt_label |-> prompt_label,
     custom_var |-> custom_var, french_var |-> french_var,
     feedback_var |-> feedback_var, summary_text |-> summary_text,
     top |-> top, raised |-> FALSE, typed_log |-> typed_log]

\* TranslatorFrame.populate_summary: the lines joined by "\n" are kept as a
\* sequence of lines.
ChoiceLine(c) == <<"* Serie ">> \o str(c.round_index) \o <<": ">> \o c.selection

AttemptLineNoPlaceholder(a) ==
    <<"* ">> \o a.french_word \o <<" -> ">> \o a.typed_glyphs

AttemptLine(a) ==
    <<"* ">> \o a.french_word \o <<" -> ">>
        \o (IF a.typed_glyphs # Empty THEN a.typed_glyphs ELSE Vide)

populate_summary(s) ==
    [s EXCEPT !.summary_text =
        << <<"Reconnaissance :">> >>
        \o [i \in 1..Len(s.recognition_choices) |-> ChoiceLine(s.recognition_choices[i])]
        \o << <<"\nSaisie en glyphes :">> >>
        \o [i \in 1..Len(s.translation_attempts) |-> AttemptLine(s.translation_attempts[i])]]

TranslatorFrame_on_show_clears_choices(s) ==
    [populate_summary(s) EXCEPT !.custom_var = Empty, !.french_var = Empty,
                                !.feedback_var = Empty,
                                !.recognition_choices = << >>]

TranslatorFrame_on_show(s) ==
    [populate_summary(s) EXCEPT !.custom_var = Empty, !.french_var = Empty,
                                !.feedback_var = Empty]

render_round_keeps_next(s) ==
    IF s.current_round >= Len(s.recognition_rounds)
    THEN [s EXCEPT !.buttons = << >>, !.raised = TRUE,
                   !.round_label = <<"Serie ">> \o str(s.current_round + 1)
                                   \o <<" / ">> \o str(Len(s.recognition_rounds))]
    ELSE [s EXCEPT !.buttons = s.recognition_rounds[s.current_round + 1],
                   !.round_label = <<"Serie ">> \o str(s.current_round + 1)
                                   \o <<" / ">> \o str(Len(s.recognition_rounds)),
                   !.selection_var = Empty]

\* RecognitionFrame.render_round.  recognition_rounds[current_round] raises
\* IndexError when there is no such round: the old buttons are destroyed and the
\* label is set, nothing after it runs.
render_round(s) ==
    IF s.current_round >= Len(s.recognition_rounds)
    THEN [s EXCEPT !.buttons = << >>, !.raised = TRUE,
                   !.round_label = <<"Serie ">> \o str(s.current_round + 1)
                                   \o <<" / ">> \o str(Len(s.recognition_rounds))]
    ELSE [s EXCEPT !.buttons = s.recognition_rounds[s.current_round + 1],
                   !.round_label = <<"Serie ">> \o str(s.current_round + 1)
                                   \o <<" / ">> \o str(Len(s.recognition_rounds)),
                   !.selection_var = Empty,
                   !.next_button = DISABLED]

RecognitionFrame_on_show_keeps_choices(s) ==
    render_round([s EXCEPT !.selection_var = Empty, !.current_round = 0])

RecognitionFrame_on_show_clears_attempts(s) ==
    render_round([s EXCEPT !.recognition_choices = << >>,
                           !.translation_attempts = << >>,
                           !.selection_var = Empty,
                           !.current_round = 0])

RecognitionFrame_on_show(s) ==
    render_round([s EXCEPT !.recognition_choices = << >>,
                           !.selection_var = Empty,
                           !.current_round = 0])

record_choice(s, selection) ==
    [s EXCEPT !.selection_var = selection, !.next_button = NORMAL]

RECURSIVE show_frame(_, _)

load_prompt(s) ==
    IF s.index >= Len(s.practice_words)
    THEN show_frame(s, "translator")
    ELSE [s EXCEPT !.prompt_label =
                       <<"Mot ">> \o str(s.index + 1) \o <<"/">>
                       \o str(Len(s.practice_words)) \o <<" : ">>
                       \o s.practice_words[s.index + 1],
                   !.input_var = Empty]

TranslationFrame_on_show_clears_choices(s) ==
    [load_prompt([s EXCEPT !.index = 0, !.translation_attempts = << >>,
                           !.recognition_choices = << >>, !.typed_log = << >>])
        EXCEPT !.input_var = Empty]

\* typed_log is history kept for the properties only: a new translation pass
\* starts here, so the record of submitted texts starts over.
TranslationFrame_on_show(s) ==
    [load_prompt([s EXCEPT !.index = 0, !.translation_attempts = << >>,
                           !.typed_log = << >>])
        EXCEPT !.input_var = Empty]

\* TranslationAlienApp.show_frame: on_show (StartFrame has none), then tkraise;
\* an exception in on_show leaves the frame unraised.
show_frame(s, name) ==
    LET shown == CASE name = "recognition" -> RecognitionFrame_on_show(s)
                   [] name = "translation" -> TranslationFrame_on_show(s)
                   [] name = "translator" -> TranslatorFrame_on_show(s)
                   [] OTHER -> s
    IN  IF shown.raised THEN shown ELSE [shown EXCEPT !.top = name]

next_round_leaves_early(s) ==
    LET selection == IF s.selection_var # Empty THEN s.selection_var ELSE Aucun
        appended == [s EXCEPT !.recognition_choices =
                        Append(@, RecognitionChoice(s.current_round + 1, selection))]
    IN  IF s.current_round + 2 >= Len(s.recognition_rounds)
        THEN show_frame(appended, "translation")
        ELSE render_round([appended EXCEPT !.current_round = @ + 1])

next_round_always_increments(s) ==
    LET selection == IF s.selection_var # Empty THEN s.selection_var ELSE Aucun
        appended == [s EXCEPT !.recognition_choices =
                        Append(@, RecognitionChoice(s.current_round + 1, selection)),
                              !.current_round = @ + 1]
    IN  IF appended.current_round >= Len(s.recognition_rounds)
        THEN show_frame(appended, "translation")
        ELSE render_round(appended)

next_round(s) ==
    LET selection == IF s.selection_var # Empty THEN s.selection_var ELSE Aucun
        appended == [s EXCEPT !.recognition_choices =
                        Append(@, RecognitionChoice(s.current_round + 1, selection))]
    IN  IF s.current_round + 1 >= Len(s.recognition_rounds)
        THEN show_frame(appended, "translation")
        ELSE render_round([appended EXCEPT !.current_round = @ + 1])

submit_no_strip(s) ==
    IF s.index >= Len(s.practice_words)
    THEN show_frame(s, "translator")
    ELSE load_prompt(
           [s EXCEPT !.translation_attempts =
                        Append(@, TranslationAttempt(s.practice_words[s.index + 1],
                                                     s.input_var)),
                     !.index = @ + 1])

submit_forgets_increment(s) ==
    IF s.index >= Len(s.practice_words)
    THEN show_frame(s, "translator")
    ELSE load_prompt(
           [s EXCEPT !.translation_attempts =
                        Append(@, TranslationAttempt(s.practice_words[s.index + 1],
                                                     strip(s.input_var)))])

submit(s) ==
    IF s.index >= Len(s.practice_words)
    THEN show_frame(s, "translator")
    ELSE load_prompt(
           [s EXCEPT !.translation_attempts =
                        Append(@, TranslationAttempt(s.practice_words[s.index + 1],
                                                     strip(s.input_var))),
                     !.index = @ + 1])

translate_custom_folds_case(s) ==
    LET glyphs == lower(strip(s.custom_var))
        french == dict_get(build_reverse_dictionary(s.dictionary), glyphs)
    IN  IF glyphs = Empty THEN [s EXCEPT !.feedback_var = MsgEmptyGlyphs]
        ELSE IF Truthy(french) THEN [s EXCEPT !.feedback_var = Arrow \o french.value]
        ELSE [s EXCEPT !.feedback_var = MsgNoMatch]

translate_custom(s) ==
    LET glyphs == strip(s.custom_var)
        french == dict_get(build_reverse_dictionary(s.dictionary), glyphs)
    IN  IF glyphs = Empty THEN [s EXCEPT !.feedback_var = MsgEmptyGlyphs]
        ELSE IF Truthy(french) THEN [s EXCEPT !.feedback_var = Arrow \o french.value]
        ELSE [s EXCEPT !.feedback_var = MsgNoMatch]

translate_french_no_strip(s) ==
    LET french == lower(s.french_var)
        glyphs == dict_get(s.dictionary, french)
    IN  IF french = Empty THEN [s EXCEPT !.feedback_var = MsgEmptyFrench]
        ELSE IF Truthy(glyphs) THEN [s EXCEPT !.feedback_var = Arrow \o glyphs.value]
        ELSE [s EXCEPT !.feedback_var = MsgNotInList]

translate_french(s) ==
    LET french == lower(strip(s.french_var))
        glyphs == dict_get(s.dictionary, french)
    IN  IF french = Empty THEN [s EXCEPT !.feedback_var = MsgEmptyFrench]
        ELSE IF Truthy(glyphs) THEN [s EXCEPT !.feedback_var = Arrow \o glyphs.value]
        ELSE [s EXCEPT !.feedback_var = MsgNotInList]

----------------------------------------------------------------------------
(* Configurations and user inputs *)

FrameNames == {"start", "recognition", "translation", "translator"}

\* Rounds of recognition_sets.json.  An option is any str: the empty one and
\* the text of the sentinel are among those used.
\* A round has no option, one option or two.
RoundChoices ==
    {<< >>, <<Empty>>, <<Aucun>>, << <<"a">> >>, << <<"a">>, Empty >>}

RoundConfigs == SeqsUpTo(RoundChoices, MaxRounds)

soleil == <<"s", "o", "l", "e", "i", "l">>
lune == <<"l", "u", "n", "e">>
sol_glyphs == <<"@", "s", "o", "l">>       \* stands for the glyph-string of soleil
une_glyphs == <<"(", "u", "n", "e">>       \* stands for the glyph-string of lune

PracticeVocabulary == {soleil, lune}

WordLists == SeqsUpTo(PracticeVocabulary, MaxWords)

\* The first entries of the fallback dictionary of load_state.
DefaultDictionary == << <<soleil, sol_glyphs>>, <<lune, une_glyphs>> >>

\* Texts typed in the entry of the Translation stage.
TextChars == {"g", " "}
Texts == SeqsUpTo(TextChars, MaxTextLen)

\* Strings of lexicon.json: words (keys) and glyph-strings (values).
WordStrings == {Empty, <<"a">>, <<"A">>, <<" ", "a">>}
GlyphStrings == {Empty, <<"g">>, <<"G">>, <<"g", " ">>}

\* dicts of at most n entries: distinct keys, any values, any order.
Dictionaries(n) ==
    {d \in SeqsUpTo(WordStrings \X GlyphStrings, n) :
        \A i, j \in 1..Len(d) : d[i][1] = d[j][1] => i = j}

\* Queries typed in the two entries of the Translator stage.
WordQueries == WordStrings \cup {<<"a", " ">>, <<" ">>, <<"b">>}
GlyphQueries == GlyphStrings \cup {<<" ", "g">>, <<" ">>, <<"a">>}

SessionQueries == {Empty, soleil, sol_glyphs}

----------------------------------------------------------------------------
(* Configuration documents: load_json and load_state.                      *)
(* A Python value read from or written to JSON carries its type: str,      *)
(* list or dict.  A document is the text of a file, a sequence of          *)
(* characters.  Glyphs of the fallback are written by their code points.   *)

JStr(s) == [t |-> "str", v |-> s]
JList(l) == [t |-> "list", v |-> l]
JDict(d) == [t |-> "dict", v |-> d]

\* A list of str, a list of lists of str and a dict of str, as Python values.
JStrList(l) == JList([i \in 1..Len(l) |-> JStr(l[i])])
JRounds(r) == JList([i \in 1..Len(r) |-> JStrList(r[i])])
JStrDict(d) == JDict([i \in 1..Len(d) |-> <<d[i][1], JStr(d[i][2])>>])

\* The str, list of str, list of lists of str or dict of str a value holds,
\* in the representation of the session.
RECURSIVE plain(_)
plain(x) ==
    CASE x.t = "str" -> x.v
      [] x.t = "list" -> [i \in 1..Len(x.v) |-> plain(x.v[i])]
      [] x.t = "dict" -> [i \in 1..Len(x.v) |-> <<x.v[i][1], plain(x.v[i][2])>>]

Quote == "\""
Backslash == "\\"

\* The body of a JSON string: the quote and the backslash are escaped,
\* every other character is written as it is (ensure_ascii=False).
RECURSIVE escape(_)
escape(s) ==
    IF s = << >> THEN << >>
    ELSE (IF Head(s) \in {Quote, Backslash} THEN <<Backslash, Head(s)>> ELSE <<Head(s)>>)
         \o escape(Tail(s))

\* A line break followed by the indentation of nesting depth d (indent=2).
Indent(d) == <<"\n">> \o [i \in 1..(d + d) |-> " "]

RECURSIVE json_dumps(_, _)
RECURSIVE dumps_items(_, _, _)
RECURSIVE dumps_members(_, _, _)

dumps_items(l, i, d) ==
    IF i > Len(l) THEN << >>
    ELSE (IF i > 1 THEN <<",">> ELSE << >>)
         \o Indent(d) \o json_dumps(l[i], d) \o dumps_items(l, i + 1, d)

dumps_members(m, i, d) ==
    IF i > Len(m) THEN << >>
    ELSE (IF i > 1 THEN <<",">> ELSE << >>)
         \o Indent(d) \o <<Quote>> \o escape(m[i][1]) \o <<Quote, ":", " ">>
         \o json_dumps(m[i][2], d) \o dumps_members(m, i + 1, d)

\* json.dumps(x, ensure_ascii=False, indent=2), at nesting depth d.
json_dumps(x, d) ==
    CASE x.t = "str" -> <<Quote>> \o escape(x.v) \o <<Quote>>
      [] x.t = "list" ->
           IF x.v = << >> THEN <<"[", "]">>
           ELSE <<"[">> \o dumps_items(x.v, 1, d + 1) \o Indent(d) \o <<"]">>
      [] x.t = "dict" ->
           IF x.v = << >> THEN <<"{", "}">>
           ELSE <<"{">> \o dumps_members(x.v, 1, d + 1) \o Indent(d) \o <<"}">>

RECURSIVE skip_ws(_, _)
RECURSIVE scan_string(_, _, _)
RECURSIVE parse_value(_, _)
RECURSIVE parse_items(_, _, _)
RECURSIVE parse_members(_, _, _)

\* The first position from i on that holds no whitespace.
skip_ws(text, i) ==
    IF i <= Len(text) /\ text[i] \in {" ", "\n"} THEN skip_ws(text, i + 1) ELSE i

\* The string whose body starts at position i, and the position after it.
scan_string(text, i, acc) ==
    IF text[i] = Quote THEN [value |-> acc, next |-> i + 1]
    ELSE IF text[i] = Backslash
         THEN scan_string(text, i + 2, Append(acc, text[i + 1]))
         ELSE scan_string(text, i + 1, Append(acc, text[i]))

parse_value(text, i0) ==
    LET i == skip_ws(text, i0)
    IN  CASE text[i] = Quote ->
               LET r == scan_string(text, i + 1, << >>)
               IN  [value |-> JStr(r.value), next |-> r.next]
          [] text[i] = "[" -> parse_items(text, i + 1, << >>)
          [] text[i] = "{" -> parse_members(text, i + 1, << >>)

parse_items(text, i0, acc) ==
    LET i == skip_ws(text, i0)
    IN  IF text[i] = "]" THEN [value |-> JList(acc), next |-> i + 1]
        ELSE IF text[i] = "," THEN parse_items(text, i + 1, acc)
        ELSE LET r == parse_value(text, i)
             IN  parse_items(text, r.next, Append(acc, r.value))

\* A name given twice keeps its first place and its last value, as in a dict.
parse_members(text, i0, acc) ==
    LET i == skip_ws(text, i0)
    IN  IF text[i] = "}" THEN [value |-> JDict(acc), next |-> i + 1]
        ELSE IF text[i] = "," THEN parse_members(text, i + 1, acc)
        ELSE LET k == scan_string(text, i + 1, << >>)
                 c == skip_ws(text, k.next)
                 r == parse_value(text, c + 1)
             IN  parse_members(text, r.next, dict_set(acc, k.value, r.value))

\* json.load on the text of a document.
json_load(text) == parse_value(text, 1).value

\* A path of the data directory holds a document or nothing.
Missing == [exists |-> FALSE, text |-> << >>]
Document(text) == [exists |-> TRUE, text |-> text]

RECOGNITION_FILE == "recognition_sets.json"
LEXICON_FILE == "lexicon.json"

\* The names read by load_state.
key_font_label == <<"f", "o", "n", "t", "_", "l", "a", "b", "e", "l">>
key_rounds == <<"r", "o", "u", "n", "d", "s">>
key_practice_words ==
    <<"p", "r", "a", "c", "t", "i", "c", "e", "_", "w", "o", "r", "d", "s">>
key_dictionary == <<"d", "i", "c", "t", "i", "o", "n", "a", "r", "y">>

HoloGlyph == <<"H", "o", "l", "o", "G", "l", "y", "p", "h">>

FallbackRounds ==
    << << <<"U+0394">>, <<"U+039B">>, <<"U+03A9">>, <<"U+03A8">>, <<"U+03A6">>, <<"U+03A3">> >>,
       << <<"U+03DE">>, <<"U+03DF">>, <<"U+10123">>, <<"U+10122">>, <<"U+2736">>, <<"U+2727">> >>,
       << <<"U+20AA">>, <<"U+232C">>, <<"U+2388">>, <<"U+29EB">>, <<"U+25C8">>, <<"U+2B23">> >>,
       << <<"U+20AA", "U+0394">>, <<"U+039B", "U+03A9">>, <<"U+03A8", "U+03A3">>, <<"U+03A6", "U+0398">>, <<"U+0398", "U+03A8">>, <<"U+03A9", "U+039B">> >>,
       << <<"U+27C1">>, <<"U+22C7">>, <<"U+238A">>, <<"U+237E">>, <<"U+27E1">>, <<"U+27E0">> >>,
       << <<"U+22B6">>, <<"U+22B7">>, <<"U+22B8">>, <<"U+22D4">>, <<"U+22C7">>, <<"U+22C9">> >>,
       << <<"U+2316">>, <<"U+2316", "U+0394">>, <<"U+039B", "U+2316">>, <<"U+03A9", "U+2316">>, <<"U+03A8", "U+2316">>, <<"U+03A6", "U+2316">> >> >>

FallbackPracticeWords ==
    << <<"s", "o", "l", "e", "i", "l">>,
       <<"l", "u", "n", "e">>,
       <<"U+00E9", "t", "o", "i", "l", "e">>,
       <<"t", "e", "r", "r", "e">>,
       <<"e", "a", "u">> >>

FallbackDictionary ==
    << << <<"s", "o", "l", "e", "i", "l">>, <<"@", "s", "o", "l">> >>,
       << <<"l", "u", "n", "e">>, <<"(", "u", "n", "e">> >>,
       << <<"U+00E9", "t", "o", "i", "l", "e">>, <<"U+2726", "t", "o", "i", "l", "e">> >>,
       << <<"t", "e", "r", "r", "e">>, <<"U+27C1", "t", "e", "r", "r", "e">> >>,
       << <<"e", "a", "u">>, <<"U+2248", "e", "a", "u">> >>,
       << <<"v", "e", "n", "t">>, <<"U+3004", "v", "e", "n", "t">> >>,
       << <<"f", "e", "u">>, <<"U+1F525", "f", "e", "u">> >> >>

fallback_recognition ==
    JDict(<< <<key_font_label, JStr(HoloGlyph)>>,
             <<key_rounds, JRounds(FallbackRounds)>> >>)

fallback_lexicon ==
    JDict(<< <<key_practice_words, JStrList(FallbackPracticeWords)>>,
             <<key_dictionary, JStrDict(FallbackDictionary)>> >>)

\* load_json without the write of the fallback.
load_json_no_write(fs, path, fallback) ==
    IF fs[path].exists
    THEN [fs |-> fs, value |-> json_load(fs[path].text)]
    ELSE [fs |-> fs, value |-> fallback]

\* load_json on the files fs: the files it leaves and the value it returns.
load_json(fs, path, fallback) ==
    IF fs[path].exists
    THEN [fs |-> fs, value |-> json_load(fs[path].text)]
    ELSE [fs |-> [fs EXCEPT ![path] = Document(json_dumps(fallback, 0))],
          value |-> fallback]

\* data.get(key, default) on a dict read from a document.
get(data, key, default) ==
    LET r == dict_get(data.v, key) IN IF r.present THEN r.value ELSE default

\* load_state on the files fs: the files it leaves and the GameState it returns.
load_state(fs) ==
    LET recognition_data == load_json(fs, RECOGNITION_FILE, fallback_recognition)
        lexicon_data == load_json(recognition_data.fs, LEXICON_FILE, fallback_lexicon)
    IN  [fs |-> lexicon_data.fs,
         state |->
           [font_label |-> get(recognition_data.value, key_font_label, JStr(HoloGlyph)),
            recognition_rounds |-> get(recognition_data.value, key_rounds, JList(<< >>)),
            practice_words |-> get(lexicon_data.value, key_practice_words, JList(<< >>)),
            dictionary |-> get(lexicon_data.value, key_dictionary, JDict(<< >>))]]

----------------------------------------------------------------------------

(* Initial state: TranslationAlienApp.__init__ on the GameState of load_state *)

\* The application object built by TranslationAlienApp.__init__.
NewApp(rounds, words, dict) ==
    [recognition_rounds |-> rounds, practice_words |-> words, dictionary |-> dict,
     recognition_choices |-> << >>, translation_attempts |-> << >>,
     selection_var |-> Empty, current_round |-> 0, next_button |-> DISABLED,
     buttons |-> << >>, round_label |-> Empty, index |-> 0, input_var |-> Empty,
     prompt_label |-> Empty, custom_var |-> Empty, french_var |-> Empty,
     feedback_var |-> Empty, summary_text |-> << >>, top |-> "start",
     raised |-> FALSE, typed_log |-> << >>]

\* The GameState of a configuration, with the default font label.
GameState(rounds, words, dict) ==
    [font_label |-> JStr(HoloGlyph), recognition_rounds |-> JRounds(rounds),
     practice_words |-> JStrList(words), dictionary |-> JStrDict(dict)]

\* The documents that hold exactly the configuration of a GameState.
FilesOf(state) ==
    [p \in {RECOGNITION_FILE, LEXICON_FILE} |->
        IF p = RECOGNITION_FILE
        THEN Document(json_dumps(JDict(<< <<key_font_label, state.font_label>>,
                                          <<key_rounds, state.recognition_rounds>> >>), 0))
        ELSE Document(json_dumps(JDict(<< <<key_practice_words, state.practice_words>>,
                                          <<key_dictionary, state.dictionary>> >>), 0))]

\* The session starts after main has loaded the configuration from its
\* documents and built the application.
InitWith(rounds, words, dict) ==
    /\ recognition_rounds = rounds
    /\ practice_words = words
    /\ dictionary = dict
    /\ recognition_choices = << >>
    /\ translation_attempts = << >>
    /\ selection_var = Empty
    /\ current_round = 0
    /\ next_button = DISABLED
    /\ buttons = << >>
    /\ round_label = Empty
    /\ index = 0
    /\ input_var = Empty
    /\ prompt_label = Empty
    /\ custom_var = Empty
    /\ french_var = Empty
    /\ feedback_var = Empty
    /\ summary_text = << >>
    /\ top = "start"
    /\ raised = FALSE
    /\ lastOp = [op |-> "init", arg |-> Empty]
    /\ typed_log = << >>
    /\ files = FilesOf(GameState(rounds, words, dict))
    /\ loads = <<GameState(rounds, words, dict)>>

\* The variables of the application after a step that leaves them as s.
Assign(s, op, arg) ==
    /\ recognition_rounds' = s.recognition_rounds
    /\ practice_words' = s.practice_words
    /\ dictionary' = s.dictionary
    /\ recognition_choices' = s.recognition_choices
    /\ translation_attempts' = s.translation_attempts
    /\ selection_var' = s.selection_var
    /\ current_round' = s.current_round
    /\ next_button' = s.next_button
    /\ buttons' = s.buttons
    /\ round_label' = s.round_label
    /\ index' = s.index
    /\ input_var' = s.input_var
    /\ prompt_label' = s.prompt_label
    /\ custom_var' = s.custom_var
    /\ french_var' = s.french_var
    /\ feedback_var' = s.feedback_var
    /\ summary_text' = s.summary_text
    /\ top' = s.top
    /\ raised' = s.raised
    /\ typed_log' = s.typed_log
    /\ lastOp' = [op |-> op, arg |-> arg]

\* The state a callback leaves, and the record of the callback.
Apply(s, op, arg) ==
    /\ Assign(s, op, arg)
    /\ UNCHANGED <<files, loads>>

----------------------------------------------------------------------------
(* User actions: a widget acts only while its frame is the raised one. *)

\* "Commencer" of StartFrame.
ClickStart ==
    /\ top = "start"
    /\ Apply(show_frame(Cur, "recognition"), "start", Empty)

\* The i-th radio button of the current round: Tk stores its value in
\* selection_var, then runs its command.
ClickOption(i) ==
    /\ top = "recognition"
    /\ i \in 1..Len(buttons)
    /\ Apply(record_choice([Cur EXCEPT !.selection_var = buttons[i]], buttons[i]),
             "option", buttons[i])

\* "Aucun symbole reconnu".
ClickNone ==
    /\ top = "recognition"
    /\ Apply(record_choice(Cur, Aucun), "none", Empty)

\* "Suivant": a disabled Tk button ignores the click.
ClickNext ==
    /\ top = "recognition"
    /\ IF next_button = NORMAL
       THEN Apply(next_round(Cur), "next", Empty)
       ELSE Apply(Cur, "next_ignored", Empty)

\* The user types text in the entry, then "Valider".
Submit(text) ==
    /\ top = "translation"
    /\ Apply(submit([Cur EXCEPT !.input_var = text,
                                !.typed_log = Append(@, text)]),
             "submit", text)

\* The user types text in the glyph entry, then "Traduire -> Francais".
TranslateCustom(text) ==
    /\ top = "translator"
    /\ Apply(translate_custom([Cur EXCEPT !.custom_var = text]),
             "translate_custom", text)

\* The user types text in the French entry, then "Traduire -> Glyphes".
TranslateFrench(text) ==
    /\ top = "translator"
    /\ Apply(translate_french([Cur EXCEPT !.french_var = text]),
             "translate_french", text)

\* The controller's show_frame called from outside the widgets
\* (SessionController.activate(stage) of the interface).
Activate(name) ==
    Apply(show_frame(Cur, name), "show_frame", <<name>>)

----------------------------------------------------------------------------
(* Specifications *)

\* The session: every configuration of rounds, a short practice list.
Init ==
    \E rounds \in RoundConfigs, words \in {<< >>, <<soleil, lune>>} :
        InitWith(rounds, words, DefaultDictionary)

Next ==
    \/ ClickStart
    \/ \E i \in DOMAIN buttons : ClickOption(i)
    \/ ClickNone
    \/ ClickNext
    \/ \E t \in {Empty, <<"g">>} : Submit(t)
    \/ \E t \in SessionQueries : TranslateCustom(t)
    \/ \E t \in SessionQueries : TranslateFrench(t)

Spec == Init /\ [][Next]_vars

\* "Suivant" while it is enabled.
Advance == ClickNext /\ next_button = NORMAL

\* The session of a user who keeps acting: a selection is eventually made, an
\* enabled "Suivant" eventually clicked, and "Valider" eventually clicked.
SpecFair ==
    /\ Init
    /\ [][Next]_vars
    /\ WF_vars(ClickNone)
    /\ WF_vars(Advance)
    /\ WF_vars(\E t \in {Empty, <<"g">>} : Submit(t))

\* The session with the controller's show_frame callable at any time.
InitActivate ==
    \E rounds \in SeqsUpTo({<< >>, << <<"a">> >>}, MaxRounds),
       words \in {<< >>, <<soleil>>} :
        InitWith(rounds, words, DefaultDictionary)

NextActivate ==
    \/ ClickStart
    \/ \E i \in DOMAIN buttons : ClickOption(i)
    \/ ClickNone
    \/ ClickNext
    \/ \E t \in {Empty, <<"g">>} : Submit(t)
    \/ \E t \in {sol_glyphs} : TranslateCustom(t)
    \/ \E t \in {soleil} : TranslateFrench(t)
    \/ \E name \in FrameNames : Activate(name)

SpecActivate == InitActivate /\ [][NextActivate]_vars

\* The Translation stage: every practice list and every typed text.
InitTranslation ==
    \E words \in WordLists : InitWith(<< <<Aucun>> >>, words, DefaultDictionary)

NextTranslation ==
    \/ ClickStart
    \/ \E i \in DOMAIN buttons : ClickOption(i)
    \/ ClickNone
    \/ ClickNext
    \/ \E t \in Texts : Submit(t)
    \/ \E t \in {soleil} : TranslateCustom(t)
    \/ \E t \in {soleil} : TranslateFrench(t)

SpecTranslation == InitTranslation /\ [][NextTranslation]_vars

\* The lexicon: every dictionary and every query.
InitLexicon ==
    \E dict \in Dictionaries(MaxEntries) :
        InitWith(<< <<Aucun>> >>, <<soleil>>, dict)

NextLexicon ==
    \/ ClickStart
    \/ \E i \in DOMAIN buttons : ClickOption(i)
    \/ ClickNone
    \/ ClickNext
    \/ \E t \in {Empty} : Submit(t)
    \/ \E t \in GlyphQueries : TranslateCustom(t)
    \/ \E t \in WordQueries : TranslateFrench(t)

SpecLexicon == InitLexicon /\ [][NextLexicon]_vars

\* main: load_state, then the application is built and shown.
Main ==
    /\ top = "none"
    /\ Len(loads) < MaxLoads
    /\ LET loaded == load_state(files)
       IN  /\ Assign(NewApp(plain(loaded.state.recognition_rounds),
                            plain(loaded.state.practice_words),
                            plain(loaded.state.dictionary)), "main", Empty)
           /\ files' = loaded.fs
           /\ loads' = Append(loads, loaded.state)

\* The window is closed: mainloop returns and the process ends.
Close ==
    /\ top # "none"
    /\ Assign([Cur EXCEPT !.top = "none"], "close", Empty)
    /\ UNCHANGED <<files, loads>>

\* Contents of recognition_sets.json: JSON objects with or without each name.
RecognitionValues ==
    { JDict(<< >>),
      JDict(<< <<key_rounds, JRounds(<< >>)>> >>),
      JDict(<< <<key_font_label, JStr(<<"X", Quote>>)>> >>),
      JDict(<< <<key_rounds, JRounds(<< <<Empty, <<"a", Backslash>> >>, << >> >>)>>,
               <<key_font_label, JStr(Empty)>> >>) }

\* Contents of lexicon.json.
LexiconValues ==
    { JDict(<< >>),
      JDict(<< <<key_practice_words, JStrList(<<soleil>>)>> >>),
      JDict(<< <<key_dictionary, JStrDict(DefaultDictionary)>> >>),
      JDict(<< <<key_dictionary, JStrDict(<< >>)>>,
               <<key_practice_words, JStrList(<<soleil, lune>>)>> >>) }

\* A recognition_sets.json written by hand, without whitespace and with the
\* name "rounds" given twice: {"rounds":[["a"]],"x":"","rounds":[]}
CompactRecognitionText ==
    <<"{", Quote>> \o key_rounds \o <<Quote, ":", "[", "[", Quote, "a", Quote, "]", "]", ",",
      Quote, "x", Quote, ":", Quote, Quote, ",", Quote>> \o key_rounds
      \o <<Quote, ":", "[", "]", "}">>

RecognitionDocuments ==
    {Missing, Document(CompactRecognitionText)}
        \cup {Document(json_dumps(v, 0)) : v \in RecognitionValues}

LexiconDocuments == {Missing} \cup {Document(json_dumps(v, 0)) : v \in LexiconValues}

\* Before the first run of main: any documents, no application.
InitLoad ==
    \E recognition \in RecognitionDocuments, lexicon \in LexiconDocuments :
        /\ files = [p \in {RECOGNITION_FILE, LEXICON_FILE} |->
                       IF p = RECOGNITION_FILE THEN recognition ELSE lexicon]
        /\ loads = << >>
        /\ recognition_rounds = << >>
        /\ practice_words = << >>
        /\ dictionary = << >>
        /\ recognition_choices = << >>
        /\ translation_attempts = << >>
        /\ selection_var = Empty
        /\ current_round = 0
        /\ next_button = DISABLED
        /\ buttons = << >>
        /\ round_label = Empty
        /\ index = 0
        /\ input_var = Empty
        /\ prompt_label = Empty
        /\ custom_var = Empty
        /\ french_var = Empty
        /\ feedback_var = Empty
        /\ summary_text = << >>
        /\ top = "none"
        /\ raised = FALSE
        /\ lastOp = [op |-> "init", arg |-> Empty]
        /\ typed_log = << >>

NextLoad ==
    \/ Main
    \/ Close

\* The program run again and again on the same data directory.
SpecLoad == InitLoad /\ [][NextLoad]_vars

----------------------------------------------------------------------------
(* Properties *)

\* t is raw without its leading and trailing whitespace.
IsTrimOf(t, raw) ==
    \E i \in 0..Len(raw) : \E j \in i..Len(raw) :
        /\ t = SubSeq(raw, i + 1, j)
        /\ \A k \in 1..i : raw[k] \in Whitespace
        /\ \A k \in (j + 1)..Len(raw) : raw[k] \in Whitespace
        /\ t # Empty => (t[1] \notin Whitespace /\ t[Len(t)] \notin Whitespace)

IsBlank(t) == \A k \in 1..Len(t) : t[k] \in Whitespace

\* C1 (as claimed): clicking an option of the current round, whatever string it
\* is, and then "Suivant" appends exactly one choice whose round_index is the
\* 1-based number of the round and whose selection is that option; clicking
\* "Aucun symbole reconnu" and then "Suivant" appends one choice with the sentinel.
C1_SelectionRecordedAsClicked ==
    [][ /\ (lastOp.op = "option" /\ lastOp'.op = "next") =>
              recognition_choices' =
                  Append(recognition_choices,
                         RecognitionChoice(current_round + 1, lastOp.arg))
        /\ (lastOp.op = "none" /\ lastOp'.op = "next") =>
              recognition_choices' =
                  Append(recognition_choices,
                         RecognitionChoice(current_round + 1, Aucun)) ]_vars

\* C2: in every round, a click on "Suivant" that comes before any selection of
\* that round (right after entering the stage, after an advance, or after such
\* an ignored click) changes neither the history nor the round nor the stage.
C2_AdvanceWithoutSelectionIsNoOp ==
    [][ ( /\ top = "recognition"
          /\ lastOp.op \in {"start", "next", "next_ignored"}
          /\ lastOp'.op \in {"next", "next_ignored"} )
        => /\ recognition_choices' = recognition_choices
           /\ current_round' = current_round
           /\ top' = top ]_vars

\* C2 witness: in a later round, after a selection was recorded for an earlier
\* round, a click on "Suivant" was ignored.
C2_Witness ==
    /\ lastOp.op = "next_ignored"
    /\ current_round = 1
    /\ Len(recognition_choices) = 1
    /\ recognition_choices[1].selection = <<"a">>

\* C3: as long as no more texts were submitted than there are practice words,
\* there is one attempt per submitted text, the i-th attempt is for the i-th
\* practice word and its typed text is the i-th submitted text trimmed (a blank
\* text gives the empty string); in particular after n submits for n words.
C3_AttemptsMatchSubmits ==
    Len(typed_log) <= Len(practice_words) =>
        /\ Len(translation_attempts) = Len(typed_log)
        /\ \A i \in 1..Len(typed_log) :
              /\ translation_attempts[i].french_word = practice_words[i]
              /\ IsTrimOf(translation_attempts[i].typed_glyphs, typed_log[i])

\* C3 witness: two words, two submits, one with surrounding whitespace and one
\* blank, recorded as "g" and "".
C3_Witness ==
    /\ top = "translator"
    /\ practice_words = <<soleil, lune>>
    /\ typed_log = << <<" ", "g">>, <<" ">> >>
    /\ translation_attempts = <<TranslationAttempt(soleil, <<"g">>),
                                TranslationAttempt(lune, Empty)>>

\* C4: the raised frame changes only from start to Recognition, from Recognition
\* to Translation and from Translation to Translator; Translation is raised only
\* with one choice per round recorded and Translator only with one attempt per
\* practice word recorded.
C4_StagesInFixedOrder ==
    [][ /\ top' # top =>
              <<top, top'>> \in {<<"start", "recognition">>,
                                 <<"recognition", "translation">>,
                                 <<"translation", "translator">>}
        /\ top' \in {"translation", "translator"} =>
              /\ Len(recognition_choices') = Len(recognition_rounds')
              /\ \A i \in 1..Len(recognition_choices') :
                    recognition_choices'[i].round_index = i
        /\ top' = "translator" =>
              Len(translation_attempts') = Len(practice_words') ]_vars

\* C4 witness: the Translator stage reached after two rounds and two words.
C4_Witness ==
    /\ top = "translator"
    /\ Len(recognition_rounds) = 2
    /\ Len(recognition_choices) = 2
    /\ Len(translation_attempts) = 2

\* C5: whenever Translation or Translator is the raised frame, there are as many
\* recorded choices as configured rounds.
C5_ChoiceCountIsRoundCount ==
    top \in {"translation", "translator"} =>
        Len(recognition_choices) = Len(recognition_rounds)

\* C5 witness: well after Recognition completed (a lookup was made in the
\* Translator stage), the two choices of the two rounds are still there.
C5_Witness ==
    /\ top = "translator"
    /\ lastOp.op = "translate_french"
    /\ Len(recognition_rounds) = 2
    /\ Len(recognition_choices) = 2
    /\ Len(translation_attempts) = 2

\* C6: right after show_frame("recognition"), from the start button or from any
\* other state, the recognition history is empty, the round is the first one,
\* nothing is selected and "Suivant" is disabled.
C6_RecognitionEntryResets ==
    (lastOp.op = "start" \/ lastOp = [op |-> "show_frame", arg |-> <<"recognition">>])
    => /\ recognition_choices = << >>
       /\ current_round = 0
       /\ selection_var = Empty
       /\ next_button = DISABLED

\* C6 witness: Recognition re-activated after a full pass: the summary still
\* shows the two choices and the attempt of the pass that came before.
C6_Witness ==
    /\ lastOp = [op |-> "show_frame", arg |-> <<"recognition">>]
    /\ top = "recognition"
    /\ Len(recognition_rounds) = 2
    /\ Len(summary_text) = 5
    /\ recognition_choices = << >>

Keys(d) == {d[i][1] : i \in 1..Len(d)}
Values(d) == {d[i][2] : i \in 1..Len(d)}
IsLowerOf(k, t) == Len(k) = Len(t) /\ \A i \in 1..Len(t) : k[i] = LowerChar(t[i])

\* C7: each lookup answers EmptyInput exactly when its input is blank; a
\* non-blank input that matches no entry (no glyph-string equal to the trimmed
\* input, no word equal to the trimmed lower-cased input) answers NoMatch, and
\* the NoMatch answers differ from the EmptyInput answers.
C7_EmptyInputIffBlank ==
    /\ lastOp.op = "translate_custom" =>
          /\ feedback_var = MsgEmptyGlyphs <=> IsBlank(lastOp.arg)
          /\ \A g \in GlyphQueries \cup {Empty} :
                (IsTrimOf(g, lastOp.arg) /\ g # Empty /\ g \notin Values(dictionary))
                    => feedback_var = MsgNoMatch
    /\ lastOp.op = "translate_french" =>
          /\ feedback_var = MsgEmptyFrench <=> IsBlank(lastOp.arg)
          /\ \A t \in WordQueries \cup {Empty} : \A k \in WordQueries \cup {Empty} :
                (IsTrimOf(t, lastOp.arg) /\ IsLowerOf(k, t) /\ k # Empty
                 /\ k \notin Keys(dictionary))
                    => feedback_var = MsgNotInList
    /\ {MsgNoMatch, MsgNotInList} \cap {MsgEmptyGlyphs, MsgEmptyFrench} = {}

\* C7 witness: a blank word query answered EmptyInput while the dictionary has
\* entries.
C7_Witness ==
    /\ lastOp = [op |-> "translate_french", arg |-> <<" ">>]
    /\ feedback_var = MsgEmptyFrench
    /\ dictionary # << >>

\* C8 (as claimed): for a word query whose trimmed lower-cased form is not
\* empty, the answer is the stored glyph-string if that form is a key, whatever
\* the glyph-string, and is "not in list" if and only if that form is not a key.
C8_ForwardLookupFindsEveryKey ==
    (lastOp.op = "translate_french" /\ lower(strip(lastOp.arg)) # Empty) =>
        LET k == lower(strip(lastOp.arg)) IN
        /\ HasKey(dictionary, k) =>
              feedback_var = Arrow \o dictionary[KeyIndex(dictionary, k)][2]
        /\ feedback_var = MsgNotInList <=> ~HasKey(dictionary, k)

\* The word of the last entry of d whose glyph-string is g.
LastWordFor(d, g) ==
    d[CHOOSE i \in 1..Len(d) :
         d[i][2] = g /\ \A j \in (i + 1)..Len(d) : d[j][2] # g][1]

WellFormed(t) == t # Empty /\ t[1] \notin Whitespace /\ t[Len(t)] \notin Whitespace

\* C9 (as claimed, and only for glyph-strings that are not empty and carry no
\* surrounding whitespace, which trimming leaves as they are): the reverse lookup
\* of a glyph-string that is some entry's value answers the word of the last
\* entry with that glyph-string; the reverse index has one key per distinct
\* glyph-string; a glyph-string that is no entry's value answers NoMatch.
C9_ReverseLookupLastWins ==
    /\ (lastOp.op = "translate_custom" /\ WellFormed(lastOp.arg)) =>
          IF lastOp.arg \in Values(dictionary)
          THEN feedback_var = Arrow \o LastWordFor(dictionary, lastOp.arg)
          ELSE feedback_var = MsgNoMatch
    /\ Keys(build_reverse_dictionary(dictionary)) = Values(dictionary)
    /\ Len(build_reverse_dictionary(dictionary)) = Cardinality(Values(dictionary))

Injective(d) == \A i, j \in 1..Len(d) : d[i][2] = d[j][2] => i = j

\* The answer of translate_french to w, then the answer of translate_custom to
\* the glyph-string of that answer, is the word w.
RoundTrip(w) ==
    LET first == translate_french([Cur EXCEPT !.french_var = w]).feedback_var
    IN  /\ Len(first) >= 1
        /\ Head(first) = Head(Arrow)
        /\ translate_custom([Cur EXCEPT !.custom_var = Tail(first)]).feedback_var
               = Arrow \o w

\* C10 (as claimed): in the Translator stage, if no two words share a
\* glyph-string, the round trip gives back every word that is a key.
C10_RoundTripEveryKey ==
    (top = "translator" /\ Injective(dictionary)) =>
        \A w \in Keys(dictionary) : RoundTrip(w)

\* C10 (amended): the same for every key that is not empty, is lower-case and
\* carries no surrounding whitespace, and whose glyph-string is not empty and
\* carries no surrounding whitespace.
C10_RoundTripNormalizedKey ==
    (top = "translator" /\ Injective(dictionary)) =>
        \A i \in 1..Len(dictionary) :
            (WellFormed(dictionary[i][1]) /\ IsLowerOf(dictionary[i][1], dictionary[i][1])
             /\ WellFormed(dictionary[i][2]))
                => RoundTrip(dictionary[i][1])

\* C10 witness: the round trip carried out on a dictionary of two entries: the
\* word was looked up, then its glyph-string, and the answer is the word.
C10_Witness ==
    /\ lastOp.op = "translate_custom"
    /\ Len(dictionary) = 2
    /\ Injective(dictionary)
    /\ french_var = <<"a">>
    /\ HasKey(dictionary, french_var)
    /\ custom_var = dictionary[KeyIndex(dictionary, french_var)][2]
    /\ custom_var = <<"G">>
    /\ feedback_var = Arrow \o french_var

C12_NoOperationRaises == raised = FALSE

\* C13: while the Translator frame is raised, the summary is the heading of the
\* choices, one line per recorded choice in order, the heading of the attempts
\* and one line per recorded attempt in order, an attempt whose typed text is
\* empty shown with "<vide>"; the attempts are those of the current history.
C13_SummaryRendersHistory ==
    top = "translator" =>
        /\ Len(summary_text) = 2 + Len(recognition_choices) + Len(translation_attempts)
        /\ \A i \in 1..Len(recognition_choices) :
              summary_text[1 + i] =
                  <<"* Serie ">> \o str(recognition_choices[i].round_index)
                      \o <<": ">> \o recognition_choices[i].selection
        /\ \A j \in 1..Len(translation_attempts) :
              summary_text[2 + Len(recognition_choices) + j] =
                  <<"* ">> \o translation_attempts[j].french_word \o <<" -> ">>
                      \o (IF translation_attempts[j].typed_glyphs = Empty
                          THEN Vide
                          ELSE translation_attempts[j].typed_glyphs)

\* C13 witness: the Translator frame raised with two choices and an attempt
\* whose typed text is empty.
C13_Witness ==
    /\ top = "translator"
    /\ Len(recognition_choices) = 2
    /\ translation_attempts = <<TranslationAttempt(soleil, Empty)>>

\* C14 (as claimed): every advance appends one choice and then adds one to the
\* round index, so that the round index is the number of recorded choices after
\* it, and is the number of rounds when the stage hands over to Translation.
C14_AdvanceAlwaysIncrements ==
    [][ lastOp'.op = "next" =>
          /\ Len(recognition_choices') = Len(recognition_choices) + 1
          /\ current_round' = current_round + 1
          /\ current_round' = Len(recognition_choices')
          /\ top' = "translation" => current_round' = Len(recognition_rounds') ]_vars

\* C14 (amended): every advance appends one choice; on a round that is not the
\* last it then adds one to the round index, which is then the number of
\* recorded choices, and the stage stays; on the last round the round index
\* stays at the number of rounds less one, one choice per round is recorded and
\* the stage hands over to Translation.
C14_AdvanceIncrementsButOnLastRound ==
    [][ lastOp'.op = "next" =>
          /\ Len(recognition_choices') = Len(recognition_choices) + 1
          /\ IF current_round + 1 < Len(recognition_rounds)
             THEN /\ current_round' = current_round + 1
                  /\ current_round' = Len(recognition_choices')
                  /\ top' = "recognition"
             ELSE /\ current_round' = current_round
                  /\ current_round' = Len(recognition_rounds') - 1
                  /\ Len(recognition_choices') = Len(recognition_rounds')
                  /\ top' = "translation" ]_vars

\* C14 witness: the advance on the last of two rounds was made.
C14_Witness ==
    /\ lastOp.op = "next"
    /\ top = "translation"
    /\ Len(recognition_rounds) = 2
    /\ current_round = 1
    /\ Len(recognition_choices) = 2

\* C15 (as claimed): once the advance that enters Translation, or a submit, has
\* run and left the word index at or past the number of practice words, the
\* raised frame is the Translator one.
C15_PastTheEndMeansTranslator ==
    ( /\ lastOp.op \in {"next", "submit"}
      /\ top # "recognition"
      /\ index >= Len(practice_words) )
    => top = "translator"

\* C16 (as claimed): a click on an option or on "Aucun symbole reconnu" sets the
\* pending selection to what was clicked, enables "Suivant" and records nothing;
\* "Aucun symbole reconnu" can be clicked in every state of the stage; the
\* advance appends exactly one choice, whose selection is the last one clicked.
C16_LastSelectionCounts ==
    [][ /\ lastOp'.op = "option" =>
              /\ selection_var' = lastOp'.arg
              /\ next_button' = NORMAL
              /\ UNCHANGED <<recognition_choices, current_round>>
        /\ lastOp'.op = "none" =>
              /\ selection_var' = Aucun
              /\ next_button' = NORMAL
              /\ UNCHANGED <<recognition_choices, current_round>>
        /\ top = "recognition" => ENABLED ClickNone
        /\ (lastOp.op \in {"option", "none"} /\ lastOp'.op = "next") =>
              recognition_choices' =
                  Append(recognition_choices,
                         RecognitionChoice(current_round + 1,
                             IF lastOp.op = "none" THEN Aucun ELSE lastOp.arg)) ]_vars

\* C17: there are never more choices than rounds and the i-th choice is for
\* round i; there are never more attempts than practice words and the i-th
\* attempt is for the i-th practice word.
C17_OneEntryPerRoundAndWord ==
    /\ Len(recognition_choices) <= Len(recognition_rounds)
    /\ \A i \in 1..Len(recognition_choices) : recognition_choices[i].round_index = i
    /\ Len(translation_attempts) <= Len(practice_words)
    /\ \A i \in 1..Len(translation_attempts) :
          translation_attempts[i].french_word = practice_words[i]

\* C17 witness: both histories full, for two rounds and two different words.
C17_Witness ==
    /\ Len(recognition_choices) = 2
    /\ Len(translation_attempts) = 2
    /\ translation_attempts[1].french_word = soleil
    /\ translation_attempts[2].french_word = lune

\* C18 (as claimed): show_frame("translation") empties the attempts, sets the
\* word index to 0 and keeps the choices; entering Recognition keeps the
\* attempts; no click of the Recognition stage changes the attempts; no submit
\* changes the choices.
C18_StagesTouchOnlyTheirHistory ==
    [][ /\ lastOp' = [op |-> "show_frame", arg |-> <<"translation">>] =>
              /\ translation_attempts' = << >>
              /\ index' = 0
              /\ recognition_choices' = recognition_choices
        /\ (lastOp'.op = "start" \/ lastOp' = [op |-> "show_frame", arg |-> <<"recognition">>])
              => translation_attempts' = translation_attempts
        /\ lastOp'.op \in {"option", "none", "next", "next_ignored"} =>
              translation_attempts' = translation_attempts
        /\ lastOp'.op = "submit" => recognition_choices' = recognition_choices ]_vars

\* C18 (amended): the same, except that the advance on the last round, which
\* enters Translation, empties the attempts and sets the word index to 0 as
\* every entry of Translation does.
C18_StagesTouchOnlyTheirHistoryButLastAdvance ==
    [][ /\ lastOp' = [op |-> "show_frame", arg |-> <<"translation">>] =>
              /\ translation_attempts' = << >>
              /\ index' = 0
              /\ recognition_choices' = recognition_choices
        /\ (lastOp'.op = "start" \/ lastOp' = [op |-> "show_frame", arg |-> <<"recognition">>])
              => translation_attempts' = translation_attempts
        /\ lastOp'.op \in {"option", "none", "next_ignored"} =>
              translation_attempts' = translation_attempts
        /\ lastOp'.op = "next" =>
              IF current_round + 1 < Len(recognition_rounds)
              THEN translation_attempts' = translation_attempts
              ELSE translation_attempts' = << >> /\ index' = 0
        /\ lastOp'.op = "submit" => recognition_choices' = recognition_choices ]_vars

\* C18 witness: Recognition entered again after a full pass (the summary shows
\* two choices and one attempt) with the attempt of that pass still recorded.
C18_Witness ==
    /\ lastOp = [op |-> "show_frame", arg |-> <<"recognition">>]
    /\ top = "recognition"
    /\ Len(summary_text) = 5
    /\ recognition_choices = << >>
    /\ Len(translation_attempts) = 1

\* C19 (as claimed): with a user who keeps acting, a session that has entered
\* Recognition eventually has the Translator frame raised; when it is raised,
\* exactly one advance per round and one submit per practice word have been
\* made; and once it is raised it stays raised.
C19_ProgressToTranslator ==
    /\ [](top = "translator" =>
            /\ Len(recognition_choices) = Len(recognition_rounds)
            /\ Len(typed_log) = Len(practice_words))
    /\ (top = "recognition") ~> (top = "translator")
    /\ [](top = "translator" => [](top = "translator"))

\* The parts of C19 that hold: the Translator frame is eventually raised and
\* then stays raised, after one advance per round.
C19_EventuallyTranslatorForGood ==
    /\ [](top = "translator" => Len(recognition_choices) = Len(recognition_rounds))
    /\ (top = "recognition") ~> (top = "translator")
    /\ [](top = "translator" => [](top = "translator"))

\* C20: a run of main leaves an existing document as it is and loads its
\* content, creates a missing document with the fallback content and loads the
\* fallback; every load returns the same configuration as the first; and the
\* configuration always has a list of rounds, a list of practice words and a
\* dictionary, which are the ones the application is built on.
C20_LoadOrCreate ==
    [][ lastOp'.op = "main" =>
          LET state == loads'[Len(loads')]
          IN  /\ \A p \in {RECOGNITION_FILE, LEXICON_FILE} :
                    IF files[p].exists
                    THEN files'[p] = files[p]
                    ELSE files'[p] =
                           Document(json_dumps(IF p = RECOGNITION_FILE
                                               THEN fallback_recognition
                                               ELSE fallback_lexicon, 0))
              /\ ~files[RECOGNITION_FILE].exists =>
                    /\ state.font_label = JStr(HoloGlyph)
                    /\ state.recognition_rounds = JRounds(FallbackRounds)
              /\ ~files[LEXICON_FILE].exists =>
                    /\ state.practice_words = JStrList(FallbackPracticeWords)
                    /\ state.dictionary = JStrDict(FallbackDictionary)
              /\ \A v \in RecognitionValues :
                    files[RECOGNITION_FILE] = Document(json_dumps(v, 0)) =>
                       /\ state.font_label = get(v, key_font_label, JStr(HoloGlyph))
                       /\ state.recognition_rounds = get(v, key_rounds, JList(<< >>))
              /\ files[RECOGNITION_FILE] = Document(CompactRecognitionText) =>
                    /\ state.font_label = JStr(HoloGlyph)
                    /\ state.recognition_rounds = JList(<< >>)
              /\ \A v \in LexiconValues :
                    files[LEXICON_FILE] = Document(json_dumps(v, 0)) =>
                       /\ state.practice_words = get(v, key_practice_words, JList(<< >>))
                       /\ state.dictionary = get(v, key_dictionary, JDict(<< >>))
              /\ \A i \in 1..Len(loads') : loads'[i] = loads'[1]
              /\ state.recognition_rounds.t = "list"
              /\ state.practice_words.t = "list"
              /\ state.dictionary.t = "dict"
              /\ recognition_rounds' = plain(state.recognition_rounds)
              /\ practice_words' = plain(state.practice_words)
              /\ dictionary' = plain(state.dictionary) ]_vars

\* C20 witness: the second load done, where the first one found no
\* recognition document (the fallback rounds were loaded) and an existing
\* lexicon document.
C20_Witness ==
    /\ lastOp.op = "main"
    /\ Len(loads) = 2
    /\ loads[2].recognition_rounds = JRounds(FallbackRounds)
    /\ loads[2].practice_words = JStrList(<<soleil>>)
    /\ files[RECOGNITION_FILE] = Document(json_dumps(fallback_recognition, 0))

====
